---------------------------- MODULE Spec2Model ----------------------------
(***************************************************************************)
(* A model of sidle: the password cipher (sidle/enc.py) and the encrypted  *)
(* record store with its file persistence (sidle/_sidle.py).               *)
(*                                                                         *)
(* Byte strings and text are sequences of symbols.  A symbol 0..255 is a   *)
(* byte (a code point for text; the model's text is ASCII).  The output    *)
(* of the AES library is symbolic: a symbol 256..511 is a byte of a random *)
(* initialization vector, a symbol >= 512 is a ciphertext byte that        *)
(* carries the key, the IV and the plaintext byte it was made from.        *)
(* Decrypting under another key gives garbage, chosen nondeterministically.*)
(* A Python value is a record [ty, s]: its type and its content.           *)
(***************************************************************************)
EXTENDS Integers, Sequences, FiniteSets, TLC

VARIABLES
    list,    \* SidleData._list of the store under test (password "secret")
    file,    \* the bytes of the backing file
    ret,     \* the last call: its name, arguments, error and return value
    hist,    \* for each lower-cased key, the value of the last completed set or insert
    saved,   \* the _list that the last save serialised
    cipher,  \* the last encrypt call: password, plaintext and result
    pc,      \* for each of two Sidle instances, where its insert stands
    sidle,   \* for each instance, the _list of its SidleData (self.sidle)
    towrite, \* for each instance, the bytes its save is about to write
    log,     \* the reads, opens and writes of the file, in their order
    frames,  \* the load calls of the running load(blob), outermost first
    loading  \* the blob of that call and what it decrypts to under a wrong key

\* the state of the two instances that share the file
procs == <<pc, sidle, towrite, log>>

\* the state of a load call in progress
loads == <<frames, loading>>

vars == <<list, file, ret, hist, saved, cipher, procs, loads>>

----------------------------------------------------------------------------
(* Bounds of the model *)

\* number of distinct values the random IV source can return
NumIV == 2
\* longest record list the model lets set/add grow
MaxRecords == 2
\* longest plaintext the cipher specification encrypts
MaxPlainLen == 17
\* deepest nesting of load calls before Python raises RecursionError
RecursionLimit == 3

\* AES.block_size
BlockSize == 16

----------------------------------------------------------------------------
(* Python values *)

Bytes(s) == [s |-> s, ty |-> "bytes"]
Str(s) == [s |-> s, ty |-> "str"]
None == [s |-> <<>>, ty |-> "None"]
PyInt(n) == [s |-> <<n>>, ty |-> "int"]
Tuple(items) == [s |-> items, ty |-> "tuple"]
List(items) == [s |-> items, ty |-> "list"]
PyBool(b) == [s |-> <<IF b THEN 1 ELSE 0>>, ty |-> "bool"]

\* the outcome of a call: the exception it raised ("none": it returned) and
\* the value it returned
Ok(v) == [err |-> "none", val |-> v]
Raise(e) == [err |-> e, val |-> None]

\* a == b of Python for the values of the model
PyEq(a, b) == a.ty = b.ty /\ a.s = b.s

Rep(c, n) == [j \in 1..n |-> c]

\* the element of a set of one element; The({e : x \in {v}}) is e with x
\* bound to the value v, computed once
The(S) == CHOOSE y \in S : TRUE

\* str.lower / bytes.lower on ASCII
lower(s) == [j \in 1..Len(s) |-> IF s[j] \in 65..90 THEN s[j] + 32 ELSE s[j]]

----------------------------------------------------------------------------
(* sidle/utils.py *)

\* value.encode('utf-8') of a str; bytes(value, encoding=...) raises
\* TypeError for anything that is not a str
convert_bytes(value) ==
    IF value.ty = "str" THEN Ok(Bytes(value.s)) ELSE Raise("TypeError")

\* value.decode('utf-8') of bytes: a byte >= 128 of the model (0xFF) is no
\* valid UTF-8; a symbol >= 256 comes here only in the decrypted repr() of
\* a list, where it stands for a printable character or a hex digit;
\* str(value) of a str is the str itself
convert_string(value) ==
    IF value.ty = "bytes"
    THEN IF \A j \in 1..Len(value.s) : value.s[j] < 128 \/ value.s[j] >= 256
         THEN Ok(Str(value.s))
         ELSE Raise("UnicodeDecodeError")
    ELSE IF value.ty = "str" THEN Ok(value) ELSE Raise("TypeError")

----------------------------------------------------------------------------
(* The AES library, symbolically *)

Passwords == <<"secret", "wrong">>

\* SHA256.new(password).digest(): one key per password
password_to_key(password) ==
    CHOOSE k \in 1..Len(Passwords) : Passwords[k] = password

IVs == 0..(NumIV - 1)

\* Random.new().read(AES.block_size) for the draw iv: 16 random bytes, of
\* which the first iv are bytes that repr() has to escape
make_initialization_vector(iv) ==
    [j \in 1..BlockSize |-> IF j <= iv THEN 257 + 2 * iv ELSE 256 + 2 * iv]

IsIVSym(x) == x \in 256..511
IVNum(IV) == IF Len(IV) > 0 /\ IsIVSym(IV[1]) THEN (IV[1] - 256) \div 2 ELSE -1

\* the ciphertext symbol of the symbol b (a byte, or a symbol of an inner
\* ciphertext) under a key and an IV draw
CipherSym(key, iv, b) == 512 + 256 * b + 4 * iv + key
IsCipherSym(x) == x >= 512
SymByte(x) == (x - 512) \div 256
SymIV(x) == ((x - 512) % 256) \div 4
SymKey(x) == (x - 512) % 4

\* a cipher that does not chain the IV into the blocks (ECB)
AesEncryptECB(key, iv, data) ==
    [j \in 1..Len(data) |-> CipherSym(key, 0, data[j])]

\* AES.new(key, AES.MODE_CBC, IV).encrypt(data)
AesEncrypt(key, iv, data) ==
    [j \in 1..Len(data) |-> CipherSym(key, iv, data[j])]

\* what a decryption yields when the key or the IV is not the one the data
\* was encrypted with: n bytes that unpad to nothing, to bytes that are no
\* text, to the text ")))..." or to the text of a literal, "7"
GarbageKinds == {"empty", "binary", "text", "literal"}
Garbage(g, n) ==
    CASE g = "empty" -> Rep(255, n)
      [] g = "binary" -> [j \in 1..n |-> IF j = 1 THEN 1 ELSE 255]
      [] g = "literal" ->
            [j \in 1..n |-> IF j = 1 THEN (IF n - 2 < 255 THEN n - 2 ELSE 255) ELSE 55]
      [] OTHER -> [j \in 1..n |-> IF j = 1 THEN 1 ELSE 41]

\* a cipher whose data decrypts under every key
RecoversUnderAnyKey(key, IV, data) ==
    \A j \in 1..Len(data) :
        /\ IsCipherSym(data[j])
        /\ SymIV(data[j]) = IVNum(IV)

\* whether data was encrypted under this key and this IV
Recovers(key, IV, data) ==
    \A j \in 1..Len(data) :
        /\ IsCipherSym(data[j])
        /\ SymKey(data[j]) = key
        /\ SymIV(data[j]) = IVNum(IV)

\* AES.new(key, AES.MODE_CBC, IV).decrypt(data)
AesDecrypt(key, IV, data, g) ==
    IF Recovers(key, IV, data)
    THEN [j \in 1..Len(data) |-> SymByte(data[j])]
    ELSE Garbage(g, Len(data))

\* a padding whose count leaves the count byte itself out
pad_stringOffByOne(string) ==
    LET to_pad == (BlockSize - Len(string)) % BlockSize
    IN  <<to_pad>> \o string \o Rep(0, to_pad)

----------------------------------------------------------------------------
(* sidle/enc.py: SidleEncryption *)

pad_string(string) ==
    LET to_pad == (BlockSize - (Len(string) + 1)) % BlockSize
    IN  <<to_pad>> \o string \o Rep(0, to_pad)

\* string[1:-to_pad] of Python: empty when it leaves nothing
unpad_string(string) ==
    LET to_pad == string[1]
    IN  IF to_pad = 0
        THEN string
        ELSE IF Len(string) - to_pad >= 2
             THEN SubSeq(string, 2, Len(string) - to_pad)
             ELSE <<>>

\* an encrypt that takes "" and " " as well
encryptBlank(password, string, iv) ==
    The({IF b.err # "none"
         THEN b
         ELSE Ok(Bytes(make_initialization_vector(iv)
                       \o AesEncrypt(password_to_key(password), iv,
                                     pad_string(b.val.s))))
         : b \in {convert_bytes(string)}})

\* encrypt(string) with the IV draw iv
encrypt(password, string, iv) ==
    IF string.ty = "str" /\ (string.s = <<32>> \/ string.s = <<>>)
    THEN Raise("ValueError")
    ELSE The({IF b.err # "none"
              THEN b
              ELSE Ok(Bytes(make_initialization_vector(iv)
                            \o AesEncrypt(password_to_key(password), iv,
                                          pad_string(b.val.s))))
              : b \in {convert_bytes(string)}})

\* decrypt(encrypted_string); AES.new rejects an IV that is not 16 bytes
\* (ValueError) or not bytes (TypeError), and decrypt() rejects data that is
\* not a whole number of blocks (ValueError)
\* encrypted_string[:AES.block_size] and encrypted_string[AES.block_size:]
IVOf(data) == SubSeq(data, 1, IF Len(data) < BlockSize THEN Len(data) ELSE BlockSize)
BodyOf(data) ==
    SubSeq(data, (IF Len(data) < BlockSize THEN Len(data) ELSE BlockSize) + 1, Len(data))

\* a decoding that drops what is no text instead of falling back to bytes
DecodedOrEmpty(unpadded) ==
    The({IF text.err = "none" THEN text.val ELSE Str(<<>>)
         : text \in {convert_string(unpadded)}})

\* convert_string(unpad_string(_str)), or unpad_string(_str) when that raises
Decoded(unpadded) ==
    The({IF text.err = "none" THEN text.val ELSE unpadded
         : text \in {convert_string(unpadded)}})

\* a decrypt that returns the empty text instead of raising PasswordError
decryptEmpty(password, encrypted_string, g) ==
    IF encrypted_string.ty = "str"
    THEN IF Len(encrypted_string.s) < BlockSize
         THEN Raise("ValueError")
         ELSE Raise("TypeError")
    ELSE IF encrypted_string.ty # "bytes"
    THEN Raise("TypeError")
    ELSE The({IF Len(IV) # BlockSize \/ Len(body) % BlockSize # 0
              THEN Raise("ValueError")
              ELSE IF body = <<>>
              THEN Raise("IndexError")
              ELSE The({Ok(string)
                        : string \in {Decoded(Bytes(unpad_string(
                              AesDecrypt(password_to_key(password), IV, body, g))))}})
              : IV \in {IVOf(encrypted_string.s)},
                body \in {BodyOf(encrypted_string.s)}})

decrypt(password, encrypted_string, g) ==
    IF encrypted_string.ty = "str"
    THEN IF Len(encrypted_string.s) < BlockSize
         THEN Raise("ValueError")
         ELSE Raise("TypeError")
    ELSE IF encrypted_string.ty # "bytes"
    THEN Raise("TypeError")
    ELSE The({IF Len(IV) # BlockSize \/ Len(body) % BlockSize # 0
              THEN Raise("ValueError")
              ELSE IF body = <<>>
              THEN Raise("IndexError")
              ELSE The({IF string.ty = "str" /\ string.s = <<>>
                        THEN Raise("PasswordError")
                        ELSE Ok(string)
                        : string \in {Decoded(Bytes(unpad_string(
                              AesDecrypt(password_to_key(password), IV, body, g))))}})
              : IV \in {IVOf(encrypted_string.s)},
                body \in {BodyOf(encrypted_string.s)}})

----------------------------------------------------------------------------
(* str(self._list) and ast.literal_eval *)

HexDigit(n) == IF n < 10 THEN 48 + n ELSE 87 + n
HexVal(c) == IF c \in 48..57 THEN c - 48 ELSE IF c \in 97..102 THEN c - 87 ELSE -1

\* how repr() writes one symbol of a bytes or str literal: a quote or a
\* backslash with a backslash before it, a printable symbol as it is, any
\* other as \xhh (for an escaped IV byte the two digits are the symbol)
Escape(x) ==
    IF x = 39 \/ x = 92 THEN <<92, x>>
    ELSE IF x \in 32..126 THEN <<x>>
    ELSE IF x < 256 THEN <<92, 120, HexDigit(x \div 16), HexDigit(x % 16)>>
    ELSE IF IsIVSym(x) /\ x % 2 = 1 THEN <<92, 120, x, x>>
    ELSE <<x>>

\* the escapes of the symbols of s, one after the other
RECURSIVE EscapeAll(_)
EscapeAll(s) ==
    IF s = <<>> THEN <<>>
    ELSE IF Len(s) = 1 THEN Escape(s[1])
    ELSE LET half == Len(s) \div 2
         IN  EscapeAll(SubSeq(s, 1, half)) \o EscapeAll(SubSeq(s, half + 1, Len(s)))

RECURSIVE Digits(_)
Digits(n) == IF n < 10 THEN <<48 + n>> ELSE Digits(n \div 10) \o <<48 + (n % 10)>>

\* repr(v), which is str(v) for a list
RECURSIVE repr(_)
RECURSIVE JoinRepr(_)
JoinRepr(items) ==
    IF items = <<>> THEN <<>>
    ELSE IF Len(items) = 1 THEN repr(items[1])
    ELSE repr(items[1]) \o <<44, 32>> \o JoinRepr(Tail(items))

repr(v) ==
    CASE v.ty = "bytes" -> <<98, 39>> \o EscapeAll(v.s) \o <<39>>
      [] v.ty = "str" -> <<39>> \o EscapeAll(v.s) \o <<39>>
      [] v.ty = "int" -> Digits(v.s[1])
      [] v.ty = "tuple" ->
            <<40>> \o JoinRepr(v.s) \o (IF Len(v.s) = 1 THEN <<44>> ELSE <<>>) \o <<41>>
      [] v.ty = "list" -> <<91>> \o JoinRepr(v.s) \o <<93>>
      [] OTHER -> <<78, 111, 110, 101>>

At(t, i) == IF i \in 1..Len(t) THEN t[i] ELSE -1
Fail == [val |-> None, ok |-> FALSE, next |-> 0]
Parsed(v, n) == [val |-> v, ok |-> TRUE, next |-> n]
\* marks the items of a one-element tuple, written (x,)
Comma == [s |-> <<>>, ty |-> "comma"]

\* the number of backslashes that stand in a row right before position j
\* of the literal that starts at i
Backslashes(t, i, j) ==
    LET others == {m \in i..(j - 1) : t[m] # 92}
    IN  IF others = {} THEN j - i
        ELSE j - 1 - (CHOOSE m \in others : \A n \in others : n <= m)

\* a backslash that starts an escape: an even number of backslashes before it
EscapeAt(t, i, j) == j >= i /\ At(t, j) = 92 /\ Backslashes(t, i, j) % 2 = 0

\* the symbol an escape at j stands for, -1 when it is no escape of Python
Unescaped(t, j) ==
    LET d == At(t, j + 1)
        h == At(t, j + 2)
        l == At(t, j + 3)
    IN  IF d = 39 \/ d = 92 THEN d
        ELSE IF d # 120 THEN -1
        ELSE IF IsIVSym(h) /\ l = h THEN h
        ELSE IF HexVal(h) >= 0 /\ HexVal(l) >= 0 THEN 16 * HexVal(h) + HexVal(l)
        ELSE -1

\* the symbols of a string literal, from position i after its opening quote
\* to the first quote that no backslash escapes
ParseString(t, i) ==
    LET \* a position that an escape before it covers
        Covered(j) == \/ EscapeAt(t, i, j - 1)
                      \/ EscapeAt(t, i, j - 2) /\ t[j - 1] = 120
                      \/ EscapeAt(t, i, j - 3) /\ t[j - 2] = 120
        Symbol(j) == IF t[j] = 92 THEN Unescaped(t, j) ELSE t[j]
        Least(S) == CHOOSE j \in S : \A n \in S : j <= n
    IN  The({IF ends = {} THEN Fail
             ELSE The({The({The({IF \E m \in 1..Len(symbols) : symbols[m] = -1
                                 THEN Fail
                                 ELSE Parsed(symbols, close + 1)
                                 : symbols \in {[m \in 1..Len(starts) |->
                                                   Symbol(starts[m])]}})
                            : starts \in {SelectSeq([m \in 1..(close - i) |-> i + m - 1],
                                                    LAMBDA j : ~Covered(j))}})
                       : close \in {Least(ends)}})
             : ends \in {{j \in i..Len(t) : t[j] = 39 /\ ~EscapeAt(t, i, j - 1)}}})

RECURSIVE ParseInt(_, _, _)
ParseInt(t, i, acc) ==
    IF At(t, i) \in 48..57
    THEN ParseInt(t, i + 1, 10 * acc + (At(t, i) - 48))
    ELSE Parsed(PyInt(acc), i)

\* a literal at position i: a list, a tuple, a bytes or str literal, an
\* integer or None
RECURSIVE ParseValue(_, _)
RECURSIVE ParseItems(_, _, _, _)
ParseItems(t, i, close, acc) ==
    IF At(t, i) = close
    THEN Parsed(acc, i + 1)
    ELSE The({IF ~v.ok THEN Fail
              ELSE IF At(t, v.next) = close
                   THEN Parsed(Append(acc, v.val), v.next + 1)
              ELSE IF At(t, v.next) = 44 /\ At(t, v.next + 1) = 32
                   THEN ParseItems(t, v.next + 2, close, Append(acc, v.val))
              ELSE IF At(t, v.next) = 44 /\ At(t, v.next + 1) = close /\ close = 41
                   THEN Parsed(<<Comma>> \o Append(acc, v.val), v.next + 2)
              ELSE Fail
              : v \in {ParseValue(t, i)}})

\* what the items between ( and ) are: a tuple, or the one item in
\* parentheses
Parenthesized(r) ==
    IF ~r.ok THEN Fail
    ELSE IF Len(r.val) = 2 /\ r.val[1].ty = "comma"
         THEN Parsed(Tuple(Tail(r.val)), r.next)
    ELSE IF Len(r.val) = 1
         THEN Parsed(r.val[1], r.next)
    ELSE Parsed(Tuple(r.val), r.next)

\* the value of type ty that the parse r of its content gives
Wrap(r, ty) == IF r.ok THEN Parsed([s |-> r.val, ty |-> ty], r.next) ELSE Fail

ParseValue(t, i) ==
    IF At(t, i) = 91
    THEN Wrap(ParseItems(t, i + 1, 93, <<>>), "list")
    ELSE IF At(t, i) = 40
    THEN Parenthesized(ParseItems(t, i + 1, 41, <<>>))
    ELSE IF At(t, i) = 98 /\ At(t, i + 1) = 39
    THEN Wrap(ParseString(t, i + 2), "bytes")
    ELSE IF At(t, i) = 39
    THEN Wrap(ParseString(t, i + 1), "str")
    ELSE IF At(t, i) \in 48..57
    THEN ParseInt(t, i, 0)
    ELSE IF i + 3 <= Len(t) /\ SubSeq(t, i, i + 3) = <<78, 111, 110, 101>>
    THEN Parsed(None, i + 4)
    ELSE Fail

\* ast.literal_eval(text): compile() refuses a NUL in the source, and
\* anything that is no literal is an error
literal_eval(text) ==
    IF \E j \in 1..Len(text.s) : text.s[j] = 0
    THEN Raise("SyntaxError")
    ELSE The({IF r.ok /\ r.next = Len(text.s) + 1
              THEN Ok(r.val)
              ELSE Raise("SyntaxError")
              : r \in {ParseValue(text.s, 1)}})

----------------------------------------------------------------------------
(* sidle/_sidle.py: SidleData.  An operation on the list l gives the       *)
(* exception it raised, the value it returned and the list it left.  The   *)
(* lists of the model are Python lists or, after a load of a text that is  *)
(* no list, a value that cannot be iterated.                               *)

Done(e, v, l) == [list |-> l, err |-> e, val |-> v]

\* [(self._enc.decrypt(k), self._enc.decrypt(v)) for k, v in self._list]
RECURSIVE DecryptAll(_, _, _)
DecryptAll(password, items, g) ==
    IF items = <<>> THEN Ok(List(<<>>))
    ELSE IF Head(items).ty # "tuple" THEN Raise("TypeError")
    ELSE IF Len(Head(items).s) # 2 THEN Raise("ValueError")
    ELSE The({IF k.err # "none" THEN k
              ELSE The({IF v.err # "none" THEN v
                        ELSE The({IF rest.err # "none" THEN rest
                                  ELSE Ok(List(<<Tuple(<<k.val, v.val>>)>> \o rest.val.s))
                                  : rest \in {DecryptAll(password, Tail(items), g)}})
                        : v \in {decrypt(password, Head(items).s[2], g)}})
              : k \in {decrypt(password, Head(items).s[1], g)}})

\* k.lower() == _ for a decrypted key k: bytes never equal a str
KeyIs(k, _k) == k.ty = "str" /\ lower(k.s) = _k

\* the value of the first pair of encrypted_data whose key matches
RECURSIVE Lookup(_, _)
Lookup(pairs, _k) ==
    IF pairs = <<>> THEN [val |-> None, found |-> FALSE]
    ELSE IF KeyIs(Head(pairs).s[1], _k)
         THEN [val |-> Head(pairs).s[2], found |-> TRUE]
         ELSE Lookup(Tail(pairs), _k)

\* __getitem__(key, error) for a str key
__getitem__(password, l, key, error, g) ==
    IF l.ty # "list" THEN Raise("TypeError")
    ELSE The({IF encrypted_data.err # "none" THEN encrypted_data
              ELSE The({IF hit.found THEN Ok(hit.val)
                        ELSE IF error THEN Raise("KeyError")
                        ELSE Ok(None)
                        : hit \in {Lookup(encrypted_data.val.s, lower(key.s))}})
              : encrypted_data \in {DecryptAll(password, l.s, g)}})

\* get(key, default) with type=None, bytes=False
get(password, l, key, default, g) ==
    The({IF _value.err = "KeyError" THEN Ok(default) ELSE _value
         : _value \in {__getitem__(password, l, key, FALSE, g)}})

\* the index of the first record whose decrypted key lower-cases to _k (0:
\* the loop ran to its end), or the exception of the scan
RECURSIVE FindKey(_, _, _, _, _)
FindKey(password, items, i, _k, g) ==
    IF i > Len(items) THEN [err |-> "none", idx |-> 0]
    ELSE IF items[i].ty # "tuple" THEN [err |-> "TypeError", idx |-> 0]
    ELSE IF Len(items[i].s) # 2 THEN [err |-> "ValueError", idx |-> 0]
    ELSE The({IF o_key.err # "none" THEN [err |-> o_key.err, idx |-> 0]
              ELSE IF KeyIs(o_key.val, _k) THEN [err |-> "none", idx |-> i]
              ELSE FindKey(password, items, i + 1, _k, g)
              : o_key \in {decrypt(password, items[i].s[1], g)}})

\* a set that takes the matching record out and puts the new one last
StoredLast(l, idx, new, _k) ==
    IF idx = 0
    THEN List(Append(l.s, new))
    ELSE List(SubSeq(l.s, 1, idx - 1) \o SubSeq(l.s, idx + 1, Len(l.s)) \o <<new>>)

\* self._list after the scan of set ended at the index idx (0: at the end
\* of the list) with the record new
Stored(l, idx, new, _k) ==
    LET \* x[0].lower() != _k, x[0] being the stored field of a later record
        Kept(x) == ~(x.ty = "tuple" /\ Len(x.s) = 2 /\ KeyIs(x.s[1], _k))
    IN  IF idx = 0
        THEN List(Append(l.s, new))
        ELSE List(SubSeq(l.s, 1, idx - 1) \o <<new>>
                  \o SelectSeq(SubSeq(l.s, idx + 1, Len(l.s)), Kept))

\* set(key, value) with the IV draws ivk and ivv
set(password, l, key, value, ivk, ivv, g) ==
    The({IF _key.err # "none" THEN Done(_key.err, None, l)
         ELSE IF _value.err # "none" THEN Done(_value.err, None, l)
         ELSE IF l.ty # "list" THEN Done("TypeError", None, l)
         ELSE The({IF at.err # "none"
                   THEN Done(at.err, None, l)
                   ELSE Done("none", None,
                             Stored(l, at.idx, Tuple(<<_key.val, _value.val>>),
                                    lower(key.s)))
                   : at \in {FindKey(password, l.s, 1, lower(key.s), g)}})
         : _key \in {encrypt(password, key, ivk)},
           _value \in {encrypt(password, value, ivv)}})

\* __delitem__(key, index) for a str key
__delitem__(password, l, key, index, g) ==
    LET Other(x) == ~KeyIs(x.s[1], lower(key.s))
    IN  IF l.ty # "list" THEN Done("TypeError", None, l)
        ELSE The({IF encrypted_data.err # "none"
                  THEN Done(encrypted_data.err, None, l)
                  ELSE Done("none", None, List(SelectSeq(encrypted_data.val.s, Other)))
                  : encrypted_data \in {DecryptAll(password, l.s, g)}})

remove(password, l, key, g) == __delitem__(password, l, key, FALSE, g)

\* pop(key) for a non-empty str key
pop(password, l, key, g) ==
    The({IF _value.err # "none" THEN Done(_value.err, None, l)
         ELSE The({IF removed.err # "none" THEN removed
                   ELSE Done("none", _value.val, removed.list)
                   : removed \in {remove(password, l, key, g)}})
         : _value \in {__getitem__(password, l, key, FALSE, g)}})

\* add(key, value): self._list.append((key, value)), the pair as it is given
add(l, key, value) ==
    IF l.ty # "list" THEN Done("AttributeError", None, l)
    ELSE Done("none", None, List(Append(l.s, Tuple(<<key, value>>))))

\* for value in _iter: self.add(key, value)
RECURSIVE AddAll(_, _, _)
AddAll(l, key, values) ==
    IF values = <<>> THEN Done("none", None, l)
    ELSE The({IF added.err # "none" THEN added
              ELSE AddAll(added.list, key, Tail(values))
              : added \in {add(l, key, Head(values))}})

\* setlist(key, values) for a sequence of values
setlist(password, l, key, values, ivk, ivv, g) ==
    IF values # <<>>
    THEN The({IF first.err # "none" THEN first
              ELSE AddAll(first.list, key, Tail(values))
              : first \in {set(password, l, key, Head(values), ivk, ivv, g)}})
    ELSE remove(password, l, key, g)

\* keys(): `for k, _ in self` unpacks every element of the list and
\* collects its first component as it is stored
keys(l) ==
    IF l.ty # "list" THEN Raise("TypeError")
    ELSE IF \E i \in 1..Len(l.s) : l.s[i].ty # "tuple" THEN Raise("TypeError")
    ELSE IF \E i \in 1..Len(l.s) : Len(l.s[i].s) # 2 THEN Raise("ValueError")
    ELSE Ok(List([i \in 1..Len(l.s) |-> l.s[i].s[1]]))

\* key in store: __contains__ calls __getitem__(key), error=False
__contains__(password, l, key, g) ==
    The({IF _value.err = "KeyError" THEN Ok(PyBool(FALSE))
         ELSE IF _value.err # "none" THEN _value
         ELSE Ok(PyBool(TRUE))
         : _value \in {__getitem__(password, l, key, FALSE, g)}})

\* the property raw, with the IV draw iv
raw(password, l, iv) == encrypt(password, Str(repr(l)), iv)

\* not _ of Python: an empty str, bytes, list or tuple, None and 0
Falsy(v) ==
    \/ v.ty \in {"str", "bytes", "list", "tuple"} /\ v.s = <<>>
    \/ v.ty = "None"
    \/ v.ty = "int" /\ v.s = <<0>>

\* whether the innermost of depth nested load(data) calls calls
\* self.load(data) again: its decrypt returned a value that is not true,
\* and Python has room for one more call (else the call raises
\* RecursionError, which load catches and passes over)
Retries(password, data, g, depth) ==
    The({d.err = "none" /\ Falsy(d.val) /\ depth < RecursionLimit
         : d \in {decrypt(password, data, g)}})

\* a load that clears the list before it decrypts and parses
loadClearFirst(password, l, data, g) ==
    The({IF text.err # "none" THEN Done(text.err, None, List(<<>>))
         ELSE IF text.val.ty = "bytes" THEN Done("PasswordError", None, List(<<>>))
         ELSE The({IF parsed.err # "none" THEN Done(parsed.err, None, List(<<>>))
                   ELSE IF l.ty # "list" THEN Done("TypeError", None, l)
                   ELSE Done("none", None, parsed.val)
                   : parsed \in {literal_eval(text.val)}})
         : text \in {decrypt(password, data, g)}})

\* load(data).  decrypt never returns an empty value, and the retry of the
\* `if not _` branch changes nothing the rest of load reads; clear() needs
\* a list
load(password, l, data, g) ==
    The({IF text.err # "none" THEN Done(text.err, None, l)
         ELSE IF text.val.ty = "bytes" THEN Done("PasswordError", None, l)
         ELSE The({IF parsed.err # "none" THEN Done(parsed.err, None, l)
                   ELSE IF l.ty # "list" THEN Done("TypeError", None, l)
                   ELSE Done("none", None, parsed.val)
                   : parsed \in {literal_eval(text.val)}})
         : text \in {decrypt(password, data, g)}})

\* save(filename, data): the bytes written, with the IV draw iv
save(password, l, data, iv) ==
    IF data.ty = "bytes" /\ data.s # <<>> THEN Ok(data) ELSE raw(password, l, iv)

\* Sidle.insert after the file was read: data.set(key, value) and
\* data.save(filename).  The result carries the list of the wrapper's store
\* and, as its value, the bytes of the file after the call.
SetAndSave(password, l, raw_, key, value, ivk, ivv, ivs, g) ==
    The({IF data.err # "none" THEN Done(data.err, raw_, data.list)
         ELSE The({IF written.err # "none" THEN Done(written.err, raw_, data.list)
                   ELSE Done("none", written.val, data.list)
                   : written \in {save(password, data.list, None, ivs)}})
         : data \in {set(password, l, key, value, ivk, ivv, g)}})

\* Sidle.insert(key, value) on a file that holds raw_
insert(password, l, raw_, key, value, ivk, ivv, ivs, g) ==
    IF Len(raw_.s) = 0
    THEN SetAndSave(password, l, raw_, key, value, ivk, ivv, ivs, g)
    ELSE The({IF data.err # "none" THEN Done(data.err, raw_, data.list)
              ELSE SetAndSave(password, data.list, raw_, key, value, ivk, ivv, ivs, g)
              : data \in {load(password, l, raw_, g)}})

\* Sidle.__getitem__(key) on a file that holds raw_
Sidle__getitem__(password, l, raw_, key, g) ==
    IF Len(raw_.s) = 0 THEN Done("none", None, l)
    ELSE The({IF data.err # "none" THEN Done(data.err, None, data.list)
              ELSE The({Done(found.err, found.val, data.list)
                        : found \in {__getitem__(password, data.list, key, FALSE, g)}})
              : data \in {load(password, l, raw_, g)}})

----------------------------------------------------------------------------
(* The inputs of the model *)

\* "a", "A", "b" and a key of BlockSize - 1 characters, "kkkkkkkkkkkkkkk"
Keys == {<<97>>, <<65>>, <<98>>, Rep(107, BlockSize - 1)}
\* "1", "2"
Values == {<<49>>, <<50>>}
\* None, "d"
Defaults == {None, Str(<<100>>)}
LowerKeys == {lower(k) : k \in Keys}
\* the two Sidle instances over one file, and the key each inserts: "a", "b"
Procs == {1, 2}
InsertKey == <<<<97>>, <<98>>>>
\* the strings that encrypt refuses: "" and " "
BlankStrings == {<<>>, <<32>>}
\* the keys of less than BlockSize - 1 characters: "a", "A", "b"
ShortKeys == {k \in Keys : Len(k) < BlockSize - 1}
\* the value lists of setlist: [], ["1"], ["1", "2"]
ValueLists == {<<>>, <<Str(<<49>>)>>, <<Str(<<49>>), Str(<<50>>)>>}

\* the key and the value of the persistence specification: "a"; "1"
FileKeys == {<<97>>}
FileValues == {<<49>>}

\* the plaintexts of the cipher specification: "", " ", "k", "  ", "kk", ...
Plaintexts == {Rep(c, n) : c \in {32, 107}, n \in 0..MaxPlainLen}

\* blocks a ciphertext can decrypt to: one that unpads to nothing, one that
\* unpads to bytes that are no text, the padded "" and "k", and two with
\* the padding count 0
Blocks == {Rep(255, BlockSize),
           <<1>> \o Rep(255, BlockSize - 1),
           <<BlockSize - 1>> \o Rep(0, BlockSize - 1),
           <<BlockSize - 2, 107>> \o Rep(0, BlockSize - 2),
           <<0>> \o Rep(107, BlockSize - 1),
           <<0>> \o Rep(255, BlockSize - 1)}

\* the lengths of the truncated ciphertexts: no byte, a part of the IV, the
\* IV alone, the IV and a part of a block
PrefixLengths == {0, 1, BlockSize, BlockSize + 1}

PasswordSet == {Passwords[k] : k \in 1..Len(Passwords)}

\* The IV draws of the store specifications, whose operations read no IV;
\* the cipher and the persistence specifications draw from IVs.
StoreIVs == {0}

\* blobs a caller can hand to save(filename, data): the texts 7 and ((
\* encrypted under the store's password, and the text 7 encrypted under
\* the other one
Blobs == {encrypt("secret", Str(<<55>>), 0).val,
          encrypt("secret", Str(<<40, 40>>), 0).val,
          encrypt("wrong", Str(<<55>>), 0).val}

\* a blob with duplicate keys: the raw form of a list that holds the
\* records ("a", "1") and ("A", "2")
DuplicateBlobs ==
    {raw("secret",
         List(<<Tuple(<<encrypt("secret", Str(<<97>>), 0).val,
                        encrypt("secret", Str(<<49>>), 0).val>>),
                Tuple(<<encrypt("secret", Str(<<65>>), 0).val,
                        encrypt("secret", Str(<<50>>), 0).val>>)>>), 0).val}

\* a blob that decrypts under the store's password to a block that unpads
\* to nothing
EmptyBlob ==
    Bytes(make_initialization_vector(0)
          \o AesEncrypt(password_to_key("secret"), 0,
                        <<BlockSize - 1>> \o Rep(0, BlockSize - 1)))

\* the blobs handed to load: those of save(filename, data), one with
\* duplicate keys, no bytes at all, and the blob that unpads to nothing
LoadBlobs == Blobs \cup DuplicateBlobs \cup {Bytes(<<>>), EmptyBlob}

\* The garbage draws that decrypting data under password can meet: the
\* draw is read only when the data does not decrypt.
GarbageOf(password, data) ==
    IF /\ data.ty = "bytes"
       /\ Len(data.s) > BlockSize
       /\ ~Recovers(password_to_key(password), SubSeq(data.s, 1, BlockSize),
                    SubSeq(data.s, BlockSize + 1, Len(data.s)))
    THEN GarbageKinds
    ELSE {"text"}

\* the same for the fields of the records of l
GarbageFor(password, l) ==
    IF l.ty = "list"
    THEN UNION {GarbageOf(password, l.s[i].s[n]) :
                  i \in {j \in 1..Len(l.s) : l.s[j].ty = "tuple"}, n \in 1..2}
         \cup {"text"}
    ELSE {"text"}

Call(op, key, arg, pw, err, val) ==
    [err |-> err, val |-> val, key |-> key, op |-> op, arg |-> arg, pw |-> pw]

NoHist == [k \in LowerKeys |-> <<>>]

----------------------------------------------------------------------------
(* The state machine *)

Init ==
    /\ list = List(<<>>)
    /\ file = Bytes(<<>>)
    /\ ret = Call("init", None, None, "secret", "none", None)
    /\ hist = NoHist
    /\ saved = None
    /\ cipher = [pw |-> "secret", plain |-> None, out |-> Raise("none")]
    /\ pc = <<"start", "start">>
    /\ sidle = <<List(<<>>), List(<<>>)>>
    /\ towrite = <<Bytes(<<>>), Bytes(<<>>)>>
    /\ log = <<>>
    /\ frames = <<>>
    /\ loading = <<Bytes(<<>>), "text">>

\* SidleEncryption(p).encrypt(v)
Encrypt ==
    \E p \in PasswordSet, v \in Plaintexts, iv \in IVs :
        \E out \in {encrypt(p, Str(v), iv)} :
            /\ cipher' = [pw |-> p, plain |-> Str(v), out |-> out]
            /\ ret' = Call("encrypt", None, Str(v), p, out.err, out.val)
            /\ UNCHANGED <<loads, procs, list, file, hist, saved>>

\* SidleEncryption(p).decrypt(data) of the last encrypted field
Decrypt ==
    /\ cipher.out.err = "none"
    /\ cipher.plain # None
    /\ \E p \in PasswordSet :
        \E g \in GarbageOf(p, cipher.out.val) :
            \E out \in {decrypt(p, cipher.out.val, g)} :
                /\ ret' = Call("decrypt", None, cipher.out.val, p, out.err, out.val)
                /\ UNCHANGED <<loads, procs, list, file, hist, saved, cipher>>

\* SidleEncryption(p).decrypt(c) for the bytes c that decrypt under p and
\* the IV draw iv to a block that pad_string need not have made
DecryptBlock ==
    \E p \in PasswordSet, iv \in IVs, block \in Blocks :
        \E c \in {Bytes(make_initialization_vector(iv)
                         \o AesEncrypt(password_to_key(p), iv, block))} :
            \E out \in {decrypt(p, c, "text")} :
                /\ ret' = Call("decrypt block", None, c, p, out.err, out.val)
                /\ UNCHANGED <<loads, procs, list, file, hist, saved, cipher>>

\* SidleEncryption(p).decrypt(c) for bytes c that are no output of encrypt:
\* the first n bytes of one
DecryptPrefix ==
    /\ cipher.out.err = "none"
    /\ cipher.plain # None
    /\ \E p \in PasswordSet, n \in PrefixLengths :
        \E c \in {Bytes(SubSeq(cipher.out.val.s, 1, n))} :
            \E g \in GarbageOf(p, c) :
                \E out \in {decrypt(p, c, g)} :
                    /\ ret' = Call("decrypt prefix", None, c, p, out.err, out.val)
                    /\ UNCHANGED <<loads, procs, list, file, hist, saved, cipher>>

\* store.set(k, v) for k in K and v in V, with IV draws in I
SetIn(K, V, I) ==
    \E k \in K, v \in V, ivk \in I, ivv \in I, g \in GarbageFor("secret", list) :
        \E r \in {set("secret", list, Str(k), Str(v), ivk, ivv, g)} :
            /\ r.list.ty = "list" => Len(r.list.s) <= MaxRecords
            /\ list' = r.list
            /\ ret' = Call("set", Str(k), Str(v), "secret", r.err, r.val)
            /\ hist' = IF r.err = "none" THEN [hist EXCEPT ![lower(k)] = v] ELSE hist
            /\ UNCHANGED <<loads, procs, file, saved, cipher>>

Set == SetIn(Keys, Values, StoreIVs)

\* store.get(k, d)
Get ==
    \E k \in Keys, d \in Defaults, g \in GarbageFor("secret", list) :
        \E r \in {get("secret", list, Str(k), d, g)} :
            /\ ret' = Call("get", Str(k), d, "secret", r.err, r.val)
            /\ UNCHANGED <<loads, procs, list, file, hist, saved, cipher>>

\* store.remove(k), which is __delitem__(k, False)
RemoveIn(K) ==
    \E k \in K, g \in GarbageFor("secret", list) :
        \E r \in {remove("secret", list, Str(k), g)} :
            /\ list' = r.list
            /\ ret' = Call("remove", Str(k), None, "secret", r.err, r.val)
            /\ hist' = IF r.err = "none" THEN [hist EXCEPT ![lower(k)] = <<>>] ELSE hist
            /\ UNCHANGED <<loads, procs, file, saved, cipher>>

Remove == RemoveIn(Keys)

\* store.pop(k)
Pop ==
    \E k \in Keys, g \in GarbageFor("secret", list) :
        \E r \in {pop("secret", list, Str(k), g)} :
            /\ list' = r.list
            /\ ret' = Call("pop", Str(k), None, "secret", r.err, r.val)
            /\ hist' = IF r.err = "none" THEN [hist EXCEPT ![lower(k)] = <<>>] ELSE hist
            /\ UNCHANGED <<loads, procs, file, saved, cipher>>

SetFile == SetIn(FileKeys, FileValues, IVs)

RemoveFile == RemoveIn(FileKeys)

\* store.save(filename)
Save ==
    \E iv \in IVs :
        \E r \in {save("secret", list, None, iv)} :
            /\ r.err = "none"
            /\ file' = r.val
            /\ saved' = list
            /\ ret' = Call("save", None, None, "secret", r.err, None)
            /\ UNCHANGED <<loads, procs, list, hist, cipher>>

\* store.save(filename, data) with bytes of the caller
SaveData ==
    \E b \in Blobs :
        \E r \in {save("secret", list, b, 0)} :
            /\ file' = r.val
            /\ saved' = None
            /\ ret' = Call("save", None, b, "secret", r.err, None)
            /\ UNCHANGED <<loads, procs, list, hist, cipher>>

\* store.load(read_raw(filename)), which returns the store
Load ==
    \E g \in GarbageOf("secret", file) :
        \E r \in {load("secret", list, file, g)} :
            /\ list' = r.list
            /\ ret' = Call("load", None, file, "secret", r.err,
                           IF r.err = "none" THEN r.list ELSE None)
            /\ hist' = IF r.err = "none" THEN NoHist ELSE hist
            /\ UNCHANGED <<loads, procs, file, saved, cipher>>

\* SidleData(p).load(read_raw(filename)): a new store reads the file; the
\* call returns the store, here its _list
Reopen ==
    \E p \in PasswordSet :
        \E g \in GarbageOf(p, file) :
            \E r \in {load(p, List(<<>>), file, g)} :
                /\ ret' = Call("reopen", None, file, p, r.err,
                               IF r.err = "none" THEN r.list ELSE None)
                /\ UNCHANGED <<loads, procs, list, file, hist, saved, cipher>>

\* sidle.insert(k, v), which is also sidle[k] = v
Insert ==
    \E k \in Keys, v \in Values, ivk \in StoreIVs, ivv \in StoreIVs, ivs \in StoreIVs,
       g \in GarbageOf("secret", file) :
        \E r \in {insert("secret", list, file, Str(k), Str(v), ivk, ivv, ivs, g)} :
            /\ r.list.ty = "list" => Len(r.list.s) <= MaxRecords
            /\ list' = r.list
            /\ file' = r.val
            /\ ret' = Call("insert", Str(k), Str(v), "secret", r.err, None)
            /\ hist' = IF r.err = "none" THEN [hist EXCEPT ![lower(k)] = v] ELSE hist
            /\ UNCHANGED <<loads, procs, saved, cipher>>

\* sidle[k]
GetItem ==
    \E k \in Keys, g \in GarbageOf("secret", file) :
        \E r \in {Sidle__getitem__("secret", list, file, Str(k), g)} :
            /\ list' = r.list
            /\ ret' = Call("sidle[]", Str(k), None, "secret", r.err, r.val)
            /\ UNCHANGED <<loads, procs, file, hist, saved, cipher>>

\* store.set(k, v) where k or v is a string that encrypt refuses
SetBlank ==
    \/ SetIn(BlankStrings, Values \cup BlankStrings, StoreIVs)
    \/ SetIn(Keys, BlankStrings, StoreIVs)

\* store.set(k, v) for the short keys
SetShort == SetIn(ShortKeys, Values, StoreIVs)

\* store.add(k, v)
Add ==
    \E k \in ShortKeys, v \in FileValues :
        \E r \in {add(list, Str(k), Str(v))} :
            /\ r.list.ty = "list" => Len(r.list.s) <= MaxRecords
            /\ list' = r.list
            /\ ret' = Call("add", Str(k), Str(v), "secret", r.err, r.val)
            /\ UNCHANGED <<loads, procs, file, hist, saved, cipher>>

\* store.setlist(k, values)
SetList ==
    \E k \in ShortKeys, values \in ValueLists, ivk \in StoreIVs, ivv \in StoreIVs,
       g \in GarbageFor("secret", list) :
        \E r \in {setlist("secret", list, Str(k), values, ivk, ivv, g)} :
            /\ r.list.ty = "list" => Len(r.list.s) <= MaxRecords
            /\ list' = r.list
            /\ ret' = Call("setlist", Str(k), List(values), "secret", r.err, r.val)
            /\ UNCHANGED <<loads, procs, file, hist, saved, cipher>>

\* store.load(blob) for a blob of the caller that holds duplicate keys
LoadBlob ==
    \E b \in DuplicateBlobs :
        \E r \in {load("secret", list, b, "text")} :
            /\ list' = r.list
            /\ ret' = Call("load", None, b, "secret", r.err,
                           IF r.err = "none" THEN r.list ELSE None)
            /\ UNCHANGED <<loads, procs, file, hist, saved, cipher>>

\* Instance p starts insert(k, v): read_raw reads the whole file, then the
\* instance loads it, sets the record in its own store and save() makes
\* the bytes to write (data = self.raw), all in its own memory.
ReadRaw(p) ==
    /\ pc[p] = "start"
    /\ \E v \in FileValues, ivk \in IVs, ivv \in IVs, ivs \in StoreIVs,
          g \in GarbageOf("secret", file) :
        \E r \in {insert("secret", sidle[p], file, Str(InsertKey[p]), Str(v),
                          ivk, ivv, ivs, g)} :
            /\ pc' = [pc EXCEPT ![p] = IF r.err = "none" THEN "open" ELSE "failed"]
            /\ sidle' = [sidle EXCEPT ![p] = r.list]
            /\ towrite' = [towrite EXCEPT ![p] = IF r.err = "none" THEN r.val ELSE @]
            /\ log' = Append(log, <<p, "read">>)
            /\ UNCHANGED <<loads, list, file, ret, hist, saved, cipher>>

\* save of instance p: open(filename, 'wb') truncates the file
OpenFile(p) ==
    /\ pc[p] = "open"
    /\ file' = Bytes(<<>>)
    /\ pc' = [pc EXCEPT ![p] = "write"]
    /\ log' = Append(log, <<p, "open">>)
    /\ UNCHANGED <<loads, list, ret, hist, saved, cipher, sidle, towrite>>

\* save of instance p: f.write(data), and insert returns
WriteFile(p) ==
    /\ pc[p] = "write"
    /\ file' = towrite[p]
    /\ pc' = [pc EXCEPT ![p] = "done"]
    /\ log' = Append(log, <<p, "write">>)
    /\ UNCHANGED <<loads, list, ret, hist, saved, cipher, sidle, towrite>>

\* a load call is running: its innermost call has not finished
Loading == frames # <<>> /\ frames[Len(frames)] = "enter"

\* store.load(blob) is called
CallLoad ==
    /\ ~Loading
    /\ \E b \in LoadBlobs :
        \E g \in GarbageOf("secret", b) :
            /\ frames' = <<"enter">>
            /\ loading' = <<b, g>>
            /\ UNCHANGED <<procs, list, file, ret, hist, saved, cipher>>

\* The innermost load call runs: it decrypts and either calls load again
\* or goes on to the check, the parse and the assignment.  An error it
\* raises is no RecursionError, so it ends every call around it as well,
\* and a call that ends without error lets the one around it go on with
\* the same decrypted value.
LoadStep ==
    /\ Loading
    /\ IF Retries("secret", loading[1], loading[2], Len(frames))
       THEN /\ frames' = [frames EXCEPT ![Len(frames)] = "wait"] \o <<"enter">>
            /\ UNCHANGED <<list, ret, hist>>
       ELSE \E r \in {load("secret", list, loading[1], loading[2])} :
            /\ frames' = [j \in 1..Len(frames) |->
                             IF r.err = "none" THEN "returned" ELSE "raised"]
            /\ list' = r.list
            /\ ret' = Call("load", None, loading[1], "secret", r.err,
                           IF r.err = "none" THEN r.list ELSE None)
            /\ hist' = IF r.err = "none" THEN NoHist ELSE hist
    /\ UNCHANGED <<procs, loading, file, saved, cipher>>

\* store.set(k, v) between two load calls
SetIdle == ~Loading /\ SetFile

\* store.keys()
CallKeys ==
    \E r \in {keys(list)} :
        /\ ret' = Call("keys", None, None, "secret", r.err, r.val)
        /\ UNCHANGED <<loads, procs, list, file, hist, saved, cipher>>

\* k in store
Contains ==
    \E k \in Keys, g \in GarbageFor("secret", list) :
        \E r \in {__contains__("secret", list, Str(k), g)} :
            /\ ret' = Call("contains", Str(k), None, "secret", r.err, r.val)
            /\ UNCHANGED <<loads, procs, list, file, hist, saved, cipher>>

NextCipher == Encrypt \/ Decrypt \/ DecryptPrefix \/ DecryptBlock
SpecCipher == Init /\ [][NextCipher]_vars

NextSet == Set \/ Get
SpecSet == Init /\ [][NextSet]_vars

Next == Set \/ Get \/ Remove \/ Pop
Spec == Init /\ [][Next]_vars

\* set and delete alone
NextStore == Set \/ Remove
SpecStore == Init /\ [][NextStore]_vars

\* set and delete with the two queries keys() and `in`
NextKeys == Set \/ Remove \/ CallKeys \/ Contains
SpecKeys == Init /\ [][NextKeys]_vars

\* set with valid and with invalid arguments, and delete
NextInput == Set \/ SetBlank \/ Remove
SpecInput == Init /\ [][NextInput]_vars

\* the operations that can leave several records with one key
NextDup == SetShort \/ Add \/ SetList \/ LoadBlob
SpecDup == Init /\ [][NextDup]_vars

\* two Sidle instances that insert into one file, without a lock
NextRace == \E p \in Procs : ReadRaw(p) \/ OpenFile(p) \/ WriteFile(p)
SpecRace == Init /\ [][NextRace]_vars

\* What a step of LoadStep does to frames.  While a call runs, CallLoad and
\* SetIdle cannot happen, so the steps of NextLoad that change frames then
\* are the steps of LoadStep, and both actions can happen exactly when
\* Loading holds: fairness of the one is fairness of the other.
LoadAdvances ==
    /\ Loading
    /\ \/ frames' = [frames EXCEPT ![Len(frames)] = "wait"] \o <<"enter">>
       \/ \E end \in {"returned", "raised"} :
              frames' = [j \in 1..Len(frames) |-> end]

\* load call by call; Python runs a call that has started, single-threaded
\* and without suspension, so a step that can happen does happen
NextLoad == CallLoad \/ LoadStep \/ SetIdle
SpecLoad == Init /\ [][NextLoad]_vars /\ WF_frames(LoadAdvances)

\* the wrapper Sidle over one file
NextSidle == Insert \/ GetItem
SpecSidle == Init /\ [][NextSidle]_vars

NextFile == SetFile \/ RemoveFile \/ Save \/ SaveData \/ Load \/ Reopen
SpecFile == Init /\ [][NextFile]_vars

----------------------------------------------------------------------------
(* What the properties read off a state *)

\* a text that is neither empty nor made of blanks only
NonBlank(v) == v.ty = "str" /\ \E i \in 1..Len(v.s) : v.s[i] # 32

\* an Encrypted Field under password: an IV and a ciphertext that decrypts
IsEncryptedField(password, f) ==
    /\ f.ty = "bytes"
    /\ Len(f.s) > BlockSize
    /\ Recovers(password_to_key(password), SubSeq(f.s, 1, BlockSize),
                SubSeq(f.s, BlockSize + 1, Len(f.s)))

\* a record that is a pair of Encrypted Fields
IsRecord(password, x) ==
    /\ x.ty = "tuple"
    /\ Len(x.s) = 2
    /\ IsEncryptedField(password, x.s[1])
    /\ IsEncryptedField(password, x.s[2])

\* a list all of whose elements are pairs of Encrypted Fields
Clean(password, l) ==
    l.ty = "list" /\ \A i \in 1..Len(l.s) : IsRecord(password, l.s[i])

\* what a field holds: the text an Encrypted Field decrypts to, or the
\* field itself when it is no Encrypted Field
FieldText(password, f) ==
    IF IsEncryptedField(password, f) THEN decrypt(password, f, "text").val ELSE f

\* the records of l as pairs of the texts they hold
PlainPairs(password, l) ==
    [i \in 1..Len(l.s) |->
        Tuple(<<FieldText(password, l.s[i].s[1]), FieldText(password, l.s[i].s[2])>>)]

\* a literal list of 2-tuples of byte strings
WellFormed(v) ==
    /\ v.ty = "list"
    /\ \A i \in 1..Len(v.s) :
          /\ v.s[i].ty = "tuple"
          /\ Len(v.s[i].s) = 2
          /\ v.s[i].s[1].ty = "bytes"
          /\ v.s[i].s[2].ty = "bytes"

----------------------------------------------------------------------------
(* The claims *)

\* C1: for every non-empty, non-blank plaintext v of every length, the
\* lengths with padding count 0 included, and every password, decrypt of
\* encrypt(v) under the same password returns exactly v.
RoundTrip ==
    (ret.op = "decrypt" /\ ret.pw = cipher.pw /\ NonBlank(cipher.plain))
        => (ret.err = "none" /\ PyEq(ret.val, cipher.plain))

\* C2: after any sequence of set calls on an empty store, get(k') returns
\* the value of the most recent set whose key has the lower-cased form of k'.
LastWriteWins ==
    (ret.op = "get" /\ hist[lower(ret.key.s)] # <<>>)
        => (ret.err = "none" /\ PyEq(ret.val, Str(hist[lower(ret.key.s)])))

\* C3: in every state reachable by set and delete, no two records hold keys
\* with the same lower-cased form.
UniqueKeys ==
    list.ty = "list" =>
        \A i, j \in 1..Len(list.s) :
            i < j => lower(FieldText("secret", list.s[i].s[1]).s)
                       # lower(FieldText("secret", list.s[j].s[1]).s)

\* C4: get(key, default=d) returns d when no record's lower-cased key is
\* key.lower(), and the value of the matching record when there is one.
GetDefault ==
    (ret.op = "get" /\ Clean("secret", list)) =>
        LET hit == Lookup(PlainPairs("secret", list), lower(ret.key.s))
        IN  /\ ret.err = "none"
            /\ PyEq(ret.val, IF hit.found THEN hit.val ELSE ret.arg)

\* C5: delete(k) on a store made by set completes without error, removes
\* the records whose lower-cased key is k.lower() and keeps the others in
\* order; a second delete(k) right after it completes without error and
\* leaves the store as it is, also when other records remain.
DeleteIdempotent ==
    [][LET second == ret.op = "remove" /\ ret.err = "none" /\ ret.key = ret'.key
           Other(x) == ~KeyIs(x.s[1], lower(ret'.key.s))
       IN  (ret'.op = "remove" /\ (Clean("secret", list) \/ second)) =>
               /\ ret'.err = "none"
               /\ list'.ty = "list"
               /\ PlainPairs("secret", list')
                     = SelectSeq(PlainPairs("secret", list), Other)
               /\ second => list' = list]_vars

\* C6: in every state reachable by set, delete and pop, every element of
\* the record list is a pair of Encrypted Fields; no record holds a
\* plaintext key or a plaintext value.
CiphertextOnly == Clean("secret", list)

\* C7: save of a store made by set, then load of the written bytes into a
\* fresh store with the same password, gives a record list equal to the
\* saved one.
PersistenceRoundTrip ==
    (ret.op = "reopen" /\ ret.pw = "secret" /\ saved # None
       /\ Clean("secret", saved))
        => (ret.err = "none" /\ ret.val = saved)

\* C8: load of a zero-length blob returns without an error and leaves the
\* store with zero records.
EmptyFileBootstrap ==
    (ret.op \in {"load", "reopen"} /\ ret.arg = Bytes(<<>>))
        => (ret.err = "none" /\ ret.val = List(<<>>))

\* C9: a load of a blob fails with PasswordError both when the decryption
\* yields bytes that are no text and when the decrypted text is no literal
\* list of pairs of byte strings; it fails with no other error and installs
\* no malformed value.
LoadErrorClass ==
    (ret.op \in {"load", "reopen"} /\ ret.arg # Bytes(<<>>))
        => \/ ret.err = "PasswordError"
           \/ ret.err = "none" /\ WellFormed(ret.val)

\* C10, as stated: decrypting with another password than the one a field
\* was encrypted with fails with PasswordError.
WrongPasswordFails ==
    (ret.op = "decrypt" /\ ret.pw # cipher.pw) => ret.err = "PasswordError"

\* C10, amended: decrypting with another password fails with PasswordError
\* or returns a value that is not the plaintext (the garbage, as bytes or
\* as text); it raises no other error.
WrongPasswordGarbage ==
    (ret.op = "decrypt" /\ ret.pw # cipher.pw) =>
        \/ ret.err = "PasswordError" /\ ret.val = None
        \/ ret.err = "none" /\ ~PyEq(ret.val, cipher.plain)

\* a decryption with another password that returned a value
WrongPasswordReturned ==
    ret.op = "decrypt" /\ ret.pw # cipher.pw /\ ret.err = "none"
        /\ ret.val.ty = "bytes"

\* C11: keys() returns the decrypted key string of every record, in record
\* order, one entry per record.
KeysDecrypted ==
    (ret.op = "keys" /\ Clean("secret", list)) =>
        /\ ret.err = "none"
        /\ ret.val = List([i \in 1..Len(list.s) |->
                              FieldText("secret", list.s[i].s[1])])

\* the text of the lower-cased key that record x holds
RecordKey(password, x) == lower(FieldText(password, x.s[1]).s)

FileLastWriteWins ==
    ret.op = "sidle[]" =>
        /\ hist[lower(ret.key.s)] # <<>> =>
               ret.err = "none" /\ ret.val = Str(hist[lower(ret.key.s)])
        /\ Len(file.s) = 0 => ret.err = "none" /\ ret.val = None

\* two successful encrypt calls, one right after the other
TwoEncrypts ==
    /\ ret.op = "encrypt" /\ ret.err = "none"
    /\ ret'.op = "encrypt" /\ ret'.err = "none"

\* C13, as stated: no IV is used by two encrypt calls of one run, so two
\* calls never return the same IV (and never the same bytes for one
\* plaintext).
IVNeverReused ==
    [][TwoEncrypts => IVOf(ret.val.s) # IVOf(ret'.val.s)]_vars

\* C13, amended: every encrypt call puts a 16-byte IV that the random
\* source drew for this call in front of its output (a draw may repeat an
\* earlier one); two calls on the same plaintext under the same password
\* whose draws differ return outputs that differ in the IV and in every
\* ciphertext block.
IVDrawnPerCall ==
    [][(ret'.op = "encrypt" /\ ret'.err = "none") =>
          /\ \E iv \in IVs : IVOf(ret'.val.s) = make_initialization_vector(iv)
          /\ (TwoEncrypts /\ ret.arg = ret'.arg /\ ret.pw = ret'.pw
                 /\ IVOf(ret.val.s) # IVOf(ret'.val.s)) =>
                /\ Len(ret.val.s) = Len(ret'.val.s)
                /\ \A j \in (BlockSize + 1)..Len(ret'.val.s) :
                       ret.val.s[j] # ret'.val.s[j]]_vars

\* an encrypt call has returned an output under the second IV draw, so the
\* run holds outputs under two IVs
SecondIVDrawn ==
    /\ ret.op = "encrypt" /\ ret.err = "none"
    /\ Len(ret.arg.s) = BlockSize
    /\ IVOf(ret.val.s) = make_initialization_vector(1)

\* the indices of the records of l whose lower-cased key is _k
Matching(password, l, _k) ==
    {i \in 1..Len(l.s) : RecordKey(password, l.s[i]) = _k}

\* C14: after set(k, v), also on a store that held several records with the
\* key of k, exactly one record has the decrypted lower-cased key
\* k.lower(), and it holds v.
SetDeduplicates ==
    (ret.op = "set" /\ ret.err = "none") =>
        /\ Cardinality(Matching("secret", list, lower(ret.key.s))) = 1
        /\ \A i \in Matching("secret", list, lower(ret.key.s)) :
               FieldText("secret", list.s[i].s[2]) = ret.arg

\* x is a record that set(key, value) can store: the two arguments,
\* encrypted under IVs of the call
IsNewRecord(password, x, key, value) ==
    \E ivk \in IVs, ivv \in IVs :
        x = Tuple(<<encrypt(password, key, ivk).val, encrypt(password, value, ivv).val>>)

\* the least element of a non-empty set of indices
First(S) == CHOOSE i \in S : \A j \in S : i <= j

DecryptRule ==
    ret.op \in {"decrypt", "decrypt prefix", "decrypt block"} =>
        \E g \in GarbageOf(ret.pw, ret.arg) :
            LET IV == IVOf(ret.arg.s)
                body == BodyOf(ret.arg.s)
                unpadded == Bytes(unpad_string(
                               AesDecrypt(password_to_key(ret.pw), IV, body, g)))
                text == convert_string(unpadded)
            IN  IF Len(IV) # BlockSize \/ body = <<>> \/ Len(body) % BlockSize # 0
                THEN ret.err \notin {"none", "PasswordError"}
                ELSE /\ ret.err = "PasswordError" <=>
                          (text.err = "none" /\ text.val.s = <<>>)
                     /\ text.err # "none" =>
                          (ret.err = "none" /\ ret.val = unpadded)
                     /\ (text.err = "none" /\ text.val.s # <<>>) =>
                          (ret.err = "none" /\ ret.val = text.val)

\* a decryption of bytes that decrypt under the password has returned
\* bytes that are no text
RawBytesReturned ==
    /\ ret.op = "decrypt block"
    /\ ret.err = "none"
    /\ ret.val.ty = "bytes"
    /\ Len(ret.val.s) > 0

\* the buffer that the last encrypt call padded and enciphered, read back
\* from the blocks of its output
PaddedBuffer ==
    [j \in 1..Len(BodyOf(cipher.out.val.s)) |-> SymByte(BodyOf(cipher.out.val.s)[j])]

\* C17: for a plaintext of n >= 1 bytes, pad_string makes a buffer of the
\* byte p = (B - (n + 1)) mod B, 0 <= p < B, the n bytes of the plaintext and
\* p zero bytes, so its length 1 + n + p is a positive multiple of B.
PaddingArithmetic ==
    (cipher.plain # None /\ cipher.out.err = "none" /\ Len(cipher.plain.s) >= 1) =>
        LET n == Len(cipher.plain.s)
            p == (BlockSize - (n + 1)) % BlockSize
        IN  /\ p \in 0..(BlockSize - 1)
            /\ Len(PaddedBuffer) = 1 + n + p
            /\ PaddedBuffer[1] = p
            /\ SubSeq(PaddedBuffer, 2, n + 1) = cipher.plain.s
            /\ \A j \in (n + 2)..Len(PaddedBuffer) : PaddedBuffer[j] = 0
            /\ Len(PaddedBuffer) > 0
            /\ Len(PaddedBuffer) % BlockSize = 0

\* a plaintext of B - 1 bytes was padded with the count 0, to one block
PaddedWithoutZeros ==
    /\ cipher.plain # None /\ cipher.out.err = "none"
    /\ Len(cipher.plain.s) = BlockSize - 1
    /\ Len(PaddedBuffer) = BlockSize
    /\ PaddedBuffer[1] = 0

\* v is "" or " "
IsBlank(v) == v.ty = "str" /\ v.s \in BlankStrings

\* C19: set(key, value) with "" or " " as the key or as the value fails with
\* the error that encrypt raises for it, and the record list after the call
\* is the list before it, whether or not the key is stored.
InvalidInputFrame ==
    [][(ret'.op = "set" /\ (IsBlank(ret'.key) \/ IsBlank(ret'.arg))) =>
          (ret'.err = "ValueError" /\ list' = list)]_vars

\* a set of a stored key with a blank value has failed on a store of two
\* records
BlankValueRefused ==
    /\ ret.op = "set" /\ ret.err = "ValueError"
    /\ IsBlank(ret.arg) /\ ~IsBlank(ret.key)
    /\ Clean("secret", list) /\ Len(list.s) = 2
    /\ Matching("secret", list, lower(ret.key.s)) # {}

\* C20: whenever load raises, the record list is the list before the call;
\* a load changes the list only when the blob was decrypted and parsed
\* without error.
FailedLoadFrame ==
    [][ret'.op = "load" =>
          /\ ret'.err # "none" => PyEq(list', list)
          /\ ~PyEq(list', list) => (ret'.err = "none" /\ PyEq(list', ret'.val))]_vars

\* a load of a blob of another password has raised PasswordError on a
\* store that holds a record
LoadRefusedOnFilledStore ==
    /\ ret.op = "load" /\ ret.err = "PasswordError"
    /\ list.ty = "list" /\ Len(list.s) > 0

\* the place of the event e of instance p in the log, 0 when it has not
\* happened
EventAt(p, e) ==
    IF \E i \in 1..Len(log) : log[i] = <<p, e>>
    THEN CHOOSE i \in 1..Len(log) : log[i] = <<p, e>>
    ELSE 0

\* the inserts ran one after the other: one instance wrote the file before
\* the other read it
OneAfterTheOther ==
    \E p \in Procs, q \in Procs :
        /\ p # q
        /\ EventAt(p, "write") > 0
        /\ EventAt(q, "read") > EventAt(p, "write")

\* both instances read the file before either opened it for writing
BothReadFirst ==
    \A p \in Procs : EventAt(p, "read") \in 1..2

\* the file decrypts and parses to a list with a record for the key k
FileHolds(k) ==
    \E r \in {load("secret", List(<<>>), file, "text")} :
        /\ r.err = "none"
        /\ r.list.ty = "list"
        /\ Matching("secret", r.list, lower(k)) # {}

\* C21: two instances insert different keys into one file without a lock.
\* When the inserts run one after the other, both complete and the file
\* holds both keys; when both read before either writes and both complete,
\* the file holds only one of the two keys.
LostUpdate ==
    /\ (OneAfterTheOther /\ \A p \in Procs : pc[p] \in {"done", "failed"}) =>
          /\ \A p \in Procs : pc[p] = "done"
          /\ \A p \in Procs : FileHolds(InsertKey[p])
    /\ (BothReadFirst /\ \A p \in Procs : pc[p] = "done") =>
          \E p \in Procs, q \in Procs :
              p # q /\ FileHolds(InsertKey[p]) /\ ~FileHolds(InsertKey[q])

\* both inserts have completed after both instances read the empty file,
\* and the file holds the key of the second instance alone
OneKeyLost ==
    /\ BothReadFirst
    /\ \A p \in Procs : pc[p] = "done"
    /\ FileHolds(InsertKey[2]) /\ ~FileHolds(InsertKey[1])

\* C22: for every blob, load finishes, by returning the store or by raising
\* an error; when the outer decryption yields an empty result load is
\* called again at most once, so no more than two load calls are ever
\* nested.
LoadBounded ==
    /\ [](Len(frames) <= 2)
    /\ (Loading ~> ~Loading)

\* a load of the blob that decrypts to nothing has finished, with
\* PasswordError, in one call
EmptyResultRaised ==
    /\ loading[1] = EmptyBlob
    /\ frames = <<"raised">>
    /\ ret.op = "load" /\ ret.arg = EmptyBlob /\ ret.err = "PasswordError"

=============================================================================
